---- MODULE Spec2Model ----
(***************************************************************************)
(* Model of extract_log_data.py: LogExtractor (timestamp scan, token-usage *)
(* scan, duration, per-file record), process_folder_logs (per-file row,    *)
(* prompt id, flattening) and process_logs (per-subfolder tagging and      *)
(* concatenation).                                                         *)
(*                                                                         *)
(* Text is modelled at the granularity the code inspects it.  A line is a  *)
(* sequence of lexemes: a run of whitespace, a substring matching          *)
(* TIMESTAMP_PATTERN, a substring matching TOKEN_PATTERN, or one of the    *)
(* literal texts the code looks for.  Provider names, file names and the   *)
(* rendered duration are sequences of one-character strings.  An Optional  *)
(* value is a sequence of length 0 (None) or 1.                            *)
(***************************************************************************)
EXTENDS Integers, Sequences, FiniteSets, TLC

VARIABLES
    pc,          \* position of the program
    log_file,    \* base name of the file being processed
    disk,        \* the file as it is on disk: [status, content]
    lines,       \* LogExtractor.lines
    token_data,  \* extract_log_data's local token_data
    log_data,    \* what extract_log_data returned or raised
    result,      \* the row process_folder_logs builds for the file
    start_time,  \* arguments and result of _calculate_duration
    end_time,
    duration,
    log_folders, \* process_logs: the subfolders, in os.listdir order
    folder_idx,  \* process_logs: number of subfolders already processed
    log_files,   \* process_folder_logs: sorted(log_files) of the subfolder
    file_idx,    \* process_folder_logs: number of files already processed
    rows,        \* process_folder_logs: results
    results,     \* process_logs: results (one tagged table per subfolder)
    combined,    \* process_logs: the returned table
    tree         \* the directory tree under source_loc

vars == <<pc, log_file, disk, lines, token_data, log_data, result, start_time, end_time,
          duration, log_folders, folder_idx, log_files, file_idx, rows,
          results, combined, tree>>

\* ------------------------------------------------------------------ bounds

\* Largest number of lines of a log file.
MaxLines == 2
\* Largest number of lines of a log file of token-usage lines.
MaxUsageLines == 3
\* Latest day of the month of a timestamp given to _calculate_duration.
MaxDay == 2
\* Largest number of subfolders of the root.
MaxFolders == 2
\* Largest number of .log files of a subfolder.
MaxFiles == 2
\* Largest number of characters of a file name before its ".log".
MaxNameLen == 3

\* ---------------------------------------------------------------- Optional

None == <<>>
Some(x) == <<x>>

\* ------------------------------------------------------------------ lexemes

WS == [kind |-> "ws", v |-> <<>>]
Text(s) == [kind |-> "text", v |-> <<s>>]
\* A substring matching TIMESTAMP_PATTERN; year and month are fixed.
TS(day, hour, minute, second) == [kind |-> "ts", v |-> <<day, hour, minute, second>>]
\* A substring matching TOKEN_PATTERN: group(1) and the three integers.
Usage(provider, input, output, total) ==
    [kind |-> "usage", v |-> <<provider, input, output, total>>]

AssertionErrorText == Text("AssertionError")
AppRunningText == Text("App is running on")
EmojiText == Text("Last user message: [TextRaw(text='Add message with emojis to the app to make it more fun')]")
StoppingText == Text("Stopping Docker containers")

\* --------------------------------------------------------- string methods

\* str.strip(): leading and trailing whitespace removed.
RECURSIVE lstrip(_)
lstrip(s) ==
    IF s # <<>> /\ Head(s) = WS THEN lstrip(Tail(s)) ELSE s

RECURSIVE rstrip(_)
rstrip(s) ==
    IF s # <<>> /\ s[Len(s)] = WS THEN rstrip(SubSeq(s, 1, Len(s) - 1)) ELSE s

strip(s) == rstrip(lstrip(s))

startswith(s, lexeme) == s # <<>> /\ s[1] = lexeme

endswith(s, lexeme) == s # <<>> /\ s[Len(s)] = lexeme

\* `lexeme in s`
contains(s, lexeme) == \E i \in 1..Len(s) : s[i] = lexeme

\* re.findall(TIMESTAMP_PATTERN, line): the matches, left to right.
RECURSIVE findall(_)
findall(line) ==
    IF line = <<>> THEN <<>>
    ELSE IF Head(line).kind = "ts" THEN <<Head(line).v>> \o findall(Tail(line))
    ELSE findall(Tail(line))

\* TOKEN_PATTERN.search(line): the leftmost match, or None.
RECURSIVE search(_)
search(line) ==
    IF line = <<>> THEN None
    ELSE IF Head(line).kind = "usage" THEN Some(Head(line).v)
    ELSE search(Tail(line))

\* ------------------------------------------------------------- _read_file

_read_file(file) ==
    IF file.status = "ok" THEN file.content ELSE <<>>

\* ------------------------------------------------------ extract_timestamps

\* One iteration of the loop over enumerate(self.lines, 1).
timestamps_step(acc, line_num, line) ==
    LET matches == findall(line)
        isAssert == startswith(strip(line), AssertionErrorText)
        isDeployed == ~isAssert /\ startswith(strip(line), AppRunningText)
        isEmoji == endswith(strip(line), EmojiText)
    IN  [timestamps |->
            IF matches # <<>>
            THEN Append(acc.timestamps,
                        [timestamp |-> matches[1],
                         line_number |-> line_num,
                         full_line |-> strip(line)])
            ELSE acc.timestamps,
         assertion_error |-> acc.assertion_error \/ isAssert,
         emoji_message |-> acc.emoji_message \/ isEmoji,
         deployed_message |-> acc.deployed_message \/ isDeployed]

RECURSIVE timestamps_loop(_, _, _)
timestamps_loop(ls, line_num, acc) ==
    IF line_num > Len(ls) THEN acc
    ELSE timestamps_loop(ls, line_num + 1, timestamps_step(acc, line_num, ls[line_num]))

\* extract_timestamps reporting a post-build error for either sign alone.
extract_timestamps_either(ls) ==
    LET acc == timestamps_loop(ls, 1,
                   [timestamps |-> <<>>, assertion_error |-> FALSE,
                    emoji_message |-> FALSE, deployed_message |-> FALSE])
    IN  [timestamps |-> acc.timestamps,
         deployed |-> acc.deployed_message,
         post_build_error |-> acc.assertion_error \/ acc.emoji_message]

extract_timestamps(ls) ==
    LET acc == timestamps_loop(ls, 1,
                   [timestamps |-> <<>>, assertion_error |-> FALSE,
                    emoji_message |-> FALSE, deployed_message |-> FALSE])
    IN  [timestamps |-> acc.timestamps,
         deployed |-> acc.deployed_message,
         post_build_error |-> acc.assertion_error /\ acc.emoji_message]

\* --------------------------------------------- extract_provider_token_data

\* str.strip() of group(1), a sequence of characters.
RECURSIVE lstrip_chars(_)
lstrip_chars(s) ==
    IF s # <<>> /\ Head(s) = " " THEN lstrip_chars(Tail(s)) ELSE s

RECURSIVE rstrip_chars(_)
rstrip_chars(s) ==
    IF s # <<>> /\ s[Len(s)] = " " THEN rstrip_chars(SubSeq(s, 1, Len(s) - 1)) ELSE s

strip_chars(s) == rstrip_chars(lstrip_chars(s))

\* provider_data is a dict: a sequence of entries in insertion order, one
\* entry per key.
has_key(provider_data, provider) ==
    \E i \in 1..Len(provider_data) : provider_data[i].key = provider

\* add_usage taking the total as input plus output.
add_usage_recomputed(bucket, input_tokens, output_tokens, total_tokens) ==
    [key |-> bucket.key,
     input_tokens |-> bucket.input_tokens + input_tokens,
     output_tokens |-> bucket.output_tokens + output_tokens,
     total_tokens |-> bucket.total_tokens + input_tokens + output_tokens,
     api_calls |-> bucket.api_calls + 1]

\* The four += on the provider's bucket.
add_usage(bucket, input_tokens, output_tokens, total_tokens) ==
    [key |-> bucket.key,
     input_tokens |-> bucket.input_tokens + input_tokens,
     output_tokens |-> bucket.output_tokens + output_tokens,
     total_tokens |-> bucket.total_tokens + total_tokens,
     api_calls |-> bucket.api_calls + 1]

\* One iteration of the loop over self.lines.
provider_step(provider_data, line) ==
    LET match == search(line)
    IN  IF match = None THEN provider_data
        ELSE
            LET provider == strip_chars(match[1][1])
                input_tokens == match[1][2]
                output_tokens == match[1][3]
                total_tokens == match[1][4]
                with_key ==
                    IF has_key(provider_data, provider) THEN provider_data
                    ELSE Append(provider_data,
                                [key |-> provider, input_tokens |-> 0,
                                 output_tokens |-> 0, total_tokens |-> 0,
                                 api_calls |-> 0])
            IN  [i \in 1..Len(with_key) |->
                    IF with_key[i].key = provider
                    THEN add_usage(with_key[i], input_tokens, output_tokens,
                                   total_tokens)
                    ELSE with_key[i]]

RECURSIVE provider_loop(_, _)
provider_loop(ls, provider_data) ==
    IF ls = <<>> THEN provider_data
    ELSE provider_loop(Tail(ls), provider_step(provider_data, Head(ls)))

extract_provider_token_data(ls) == provider_loop(ls, <<>>)

\* ------------------------------------------------------ _calculate_duration

Digits == <<"0", "1", "2", "3", "4", "5", "6", "7", "8", "9">>

\* str() of a non-negative integer.
RECURSIVE str_nat(_)
str_nat(n) ==
    IF n < 10 THEN <<Digits[n + 1]>>
    ELSE Append(str_nat(n \div 10), Digits[(n % 10) + 1])

\* f"{n}"
format_d(n) == IF n < 0 THEN <<"-">> \o str_nat(-n) ELSE str_nat(n)

\* f"{n:02d}": at least two characters, zero-padded after the sign.
format_02d(n) ==
    LET s == format_d(n)
    IN  IF Len(s) >= 2 THEN s ELSE <<"0">> \o s

\* datetime.strptime(ts, '%Y-%m-%d %H:%M:%S'): seconds since the start of
\* the month, or None when a field is out of range (ValueError).
strptime(ts) ==
    IF ts[1] \in 1..31 /\ ts[2] \in 0..23 /\ ts[3] \in 0..59 /\ ts[4] \in 0..59
    THEN Some((((ts[1] - 1) * 24 + ts[2]) * 60 + ts[3]) * 60 + ts[4])
    ELSE None

\* Division truncating toward zero, with the remainder taking a's sign.
divmod60_truncating(a) ==
    LET q == IF a < 0 THEN 0 - ((0 - a) \div 60) ELSE a \div 60
    IN  <<q, a - 60 * q>>

\* divmod(a, 60): floor division and modulo.
divmod60(a) == <<a \div 60, a % 60>>

_calculate_duration(start, end) ==
    LET start_dt == strptime(start)
        end_dt == strptime(end)
    IN  IF start_dt = None \/ end_dt = None THEN None
        ELSE
            LET total_seconds == end_dt[1] - start_dt[1]
                dm == divmod60(total_seconds)
            IN  Some(format_d(dm[1]) \o <<"min", " ">> \o format_02d(dm[2]) \o <<"sec">>)

\* --------------------------------------------------------- extract_log_data

Returned(value) == [status |-> "returned", value |-> Some(value)]
Raised == [status |-> "raised", value |-> None]

\* timestamps.pop() when the last record's line holds the teardown text.
pop_teardown(timestamps) ==
    IF contains(timestamps[Len(timestamps)].full_line, StoppingText)
    THEN SubSeq(timestamps, 1, Len(timestamps) - 1)
    ELSE timestamps

\* extract_log_data from the teardown check on, timestamps not empty.
assemble(scan, usage) ==
    LET timestamps == pop_teardown(scan.timestamps)
    IN  IF timestamps = <<>>
        THEN Raised    \* timestamps[0]: IndexError
        ELSE
            LET first == timestamps[1].timestamp
                last == timestamps[Len(timestamps)].timestamp
            IN  Returned(
                    [start_time |-> Some(first),
                     end_time |-> Some(last),
                     duration |-> _calculate_duration(first, last),
                     build_status |->
                         Some(IF scan.deployed /\ ~scan.post_build_error
                              THEN "success" ELSE "fail"),
                     post_build_error |-> Some(scan.post_build_error),
                     token_data |-> Some(usage)])

\* extract_log_data without its `if not timestamps` return: timestamps[-1]
\* of an empty list raises IndexError.
extract_log_data_unguarded(ls) ==
    IF extract_timestamps(ls).timestamps = <<>> THEN Raised
    ELSE assemble(extract_timestamps(ls), extract_provider_token_data(ls))

extract_log_data(ls) ==
    LET scan == extract_timestamps(ls)
        usage == extract_provider_token_data(ls)
    IN  IF scan.timestamps = <<>>
        THEN Returned([start_time |-> None, end_time |-> None, duration |-> None,
                       build_status |-> None, post_build_error |-> None,
                       token_data |-> None])
        ELSE assemble(scan, usage)

\* ------------------------------------------------- process_folder_logs: row

Ext == <<".", "l", "o", "g">>

\* os.path.splitext(filename)[0]: the name up to its last dot, unless that
\* dot is preceded by dots only.
splitext_root(filename) ==
    LET dots == {i \in 1..Len(filename) : filename[i] = "."}
    IN  IF dots = {} THEN filename
        ELSE
            LET last == CHOOSE i \in dots : \A j \in dots : j <= i
            IN  IF \A j \in 1..(last - 1) : filename[j] = "." THEN filename
                ELSE SubSeq(filename, 1, last - 1)

\* str.split('_')
RECURSIVE split_loop(_, _, _)
split_loop(s, current, done) ==
    IF s = <<>> THEN Append(done, current)
    ELSE IF Head(s) = "_" THEN split_loop(Tail(s), <<>>, Append(done, current))
    ELSE split_loop(Tail(s), Append(current, Head(s)), done)

split(s) == split_loop(s, <<>>, <<>>)

digit_value(c) == CHOOSE d \in 0..9 : Digits[d + 1] = c

is_digit(c) == \E d \in 0..9 : Digits[d + 1] = c

RECURSIVE digits_value(_, _)
digits_value(s, acc) ==
    IF s = <<>> THEN acc
    ELSE digits_value(Tail(s), acc * 10 + digit_value(Head(s)))

\* int(token): optional surrounding whitespace, optional sign, one or more
\* decimal digits; None stands for ValueError.
int(token) ==
    LET s == strip_chars(token)
        signed == s # <<>> /\ Head(s) \in {"+", "-"}
        body == IF signed THEN Tail(s) ELSE s
    IN  IF body = <<>> \/ \E i \in 1..Len(body) : ~is_digit(body[i]) THEN None
        ELSE IF signed /\ Head(s) = "-" THEN Some(0 - digits_value(body, 0))
        ELSE Some(digits_value(body, 0))

\* prompt_id taken from the first token.
prompt_id_first_token(filename) == int(split(splitext_root(filename))[1])

\* int(os.path.splitext(filename)[0].split('_')[1]) under
\* except (IndexError, ValueError): prompt_id = None.
prompt_id(filename) ==
    LET tokens == split(splitext_root(filename))
    IN  IF Len(tokens) < 2 THEN None ELSE int(tokens[2])

\* str.lower() and str.replace(' ', '_') on the characters provider names
\* are drawn from.
lower_char(c) == CASE c = "A" -> "a" [] c = "B" -> "b" [] OTHER -> c

lower(s) == [i \in 1..Len(s) |-> lower_char(s[i])]

replace_space(s) == [i \in 1..Len(s) |-> IF s[i] = " " THEN "_" ELSE s[i]]

\* f"{key.lower().replace(' ', '_')}_{sub_key}"
col_name(key, sub_key) == replace_space(lower(key)) \o <<"_", sub_key>>

\* The items of one provider's dict, in insertion order.
sub_items(value) ==
    << <<"input_tokens", value.input_tokens>>,
       <<"output_tokens", value.output_tokens>>,
       <<"total_tokens", value.total_tokens>>,
       <<"api_calls", value.api_calls>> >>

RECURSIVE flatten_value(_, _, _)
flatten_value(acc, key, items) ==
    IF items = <<>> THEN acc
    ELSE
        LET sub_key == Head(items)[1]
            sub_value == Head(items)[2]
        IN  flatten_value(
                [columns |-> (col_name(key, sub_key) :> sub_value) @@ acc.columns,
                 total_api_calls |->
                     IF sub_key = "api_calls"
                     THEN acc.total_api_calls + sub_value
                     ELSE acc.total_api_calls],
                key, Tail(items))

RECURSIVE flatten_loop(_, _)
flatten_loop(acc, items) ==
    IF items = <<>> THEN acc
    ELSE flatten_loop(flatten_value(acc, Head(items).key, sub_items(Head(items))),
                      Tail(items))

\* "Flatten token data": token_data is None (not a dict) or the dict.
flatten(usage) ==
    LET empty == [columns |-> <<>>, total_api_calls |-> 0]
    IN  IF usage = None THEN empty ELSE flatten_loop(empty, usage[1])

\* The body of the loop over sorted(log_files), after extract_log_data
\* returned; the prompt_id column is unchanged by to_numeric/astype('Int64').
build_row(filename, data) ==
    LET flat == flatten(data.token_data)
    IN  [prompt_id |-> prompt_id(filename),
         log_file |-> filename,
         start_time |-> data.start_time,
         end_time |-> data.end_time,
         gen_time |-> data.duration,
         build_status |-> data.build_status,
         post_build_error |-> data.post_build_error,
         columns |-> flat.columns,
         total_api_calls |-> flat.total_api_calls]

\* ------------------------------------------------------------------ inputs

TS1 == TS(15, 21, 9, 0)
TS2 == TS(15, 21, 14, 3)

\* Lexemes of the lines the timestamp scan is exercised on.
TsLexemes ==
    {WS, TS1, TS2, AssertionErrorText, AppRunningText, EmojiText, StoppingText}

\* group(1) of TOKEN_PATTERN as found in the line.
Providers ==
    {<<"A">>, <<"a">>, <<"a", " ">>, <<"a", " ", "B">>, <<"a", "_", "b">>}

\* (Input tokens, Output tokens, Total tokens); the second is a line whose
\* total is not the sum of the other two.
TokenCounts == {<<100, 50, 150>>, <<1, 2, 7>>}

Usages == {Usage(p, c[1], c[2], c[3]) : p \in Providers, c \in TokenCounts}

TsLines ==
    {<<>>} \cup {<<a>> : a \in TsLexemes} \cup {<<a, b>> : a, b \in TsLexemes}

\* Lines the token-usage scan is exercised on: without a match, with one,
\* with one after a timestamp, with two (only the leftmost is searched).
TokLines ==
    {<<>>, <<TS1>>} \cup {<<u>> : u \in Usages}
    \cup {<<TS1, Usage(<<"A">>, 100, 50, 150)>>,
          <<WS, Usage(<<"a">>, 1, 2, 7), Usage(<<"A">>, 100, 50, 150)>>}

FilesOver(lineSet, maxLines) == UNION {[1..n -> lineSet] : n \in 0..maxLines}

Readable(content) == [status |-> "ok", content |-> content]
Missing == [status |-> "missing", content |-> <<>>]
Undecodable == [status |-> "undecodable", content |-> <<>>]

DiskFiles ==
    {Readable(f) : f \in FilesOver(TsLines, MaxLines)
                          \cup FilesOver(TokLines, MaxUsageLines)}
    \cup {Missing, Undecodable}

\* ------------------------------------------ one file through the loop body

NoData == Returned([start_time |-> None, end_time |-> None, duration |-> None,
                    build_status |-> None, post_build_error |-> None,
                    token_data |-> None])
NoRow == build_row(<<>>, NoData.value[1])

DefaultName == <<"p", "_", "7">> \o Ext

IdleDuration == start_time = None /\ end_time = None /\ duration = None
IdleTree ==
    /\ log_folders = <<>> /\ folder_idx = 0 /\ log_files = <<>> /\ file_idx = 0
    /\ rows = <<>> /\ results = <<>> /\ combined = <<>>
    /\ tree = [exists |-> FALSE, folders |-> <<>>]

\* Characters of file names.
NameChars == {"p", "_", "7", "0", "-"}

\* What glob("*.log") can return: a non-empty stem and the extension.
FileNames ==
    {stem \o Ext : stem \in UNION {[1..n -> NameChars] : n \in 1..MaxNameLen}}

\* Every file content, under one name.
Init ==
    /\ pc = "start"
    /\ log_file = DefaultName
    /\ disk \in DiskFiles
    /\ lines = <<>>
    /\ token_data = <<>>
    /\ log_data = NoData
    /\ result = NoRow
    /\ IdleDuration
    /\ IdleTree

\* Every file name, over a file with timestamps, a missing file and a
\* file whose only timestamp is on the teardown line.
InitNames ==
    /\ pc = "start"
    /\ log_file \in FileNames
    /\ disk \in {Readable(<< <<TS1>>, <<TS2>> >>), Missing,
                 Readable(<< <<TS1, StoppingText>> >>)}
    /\ lines = <<>>
    /\ token_data = <<>>
    /\ log_data = NoData
    /\ result = NoRow
    /\ IdleDuration
    /\ IdleTree

\* LogExtractor(log_file): __init__ reads the file.
Construct ==
    /\ pc = "start"
    /\ lines' = _read_file(disk)
    /\ pc' = "constructed"
    /\ UNCHANGED <<log_file, disk, token_data, log_data, result, start_time, end_time,
                   duration, log_folders, folder_idx, log_files, file_idx,
                   rows, results, combined, tree>>

\* extractor.extract_log_data(), returning a record.
ExtractReturns ==
    /\ pc = "constructed"
    /\ extract_log_data(lines).status = "returned"
    /\ token_data' = extract_provider_token_data(lines)
    /\ log_data' = extract_log_data(lines)
    /\ pc' = "extracted"
    /\ UNCHANGED <<log_file, disk, lines, result, start_time, end_time,
                   duration, log_folders, folder_idx, log_files, file_idx,
                   rows, results, combined, tree>>

\* extractor.extract_log_data(), raising IndexError out of the loop.
ExtractRaises ==
    /\ pc = "constructed"
    /\ extract_log_data(lines).status = "raised"
    /\ token_data' = extract_provider_token_data(lines)
    /\ log_data' = extract_log_data(lines)
    /\ pc' = "raised"
    /\ UNCHANGED <<log_file, disk, lines, result, start_time, end_time,
                   duration, log_folders, folder_idx, log_files, file_idx,
                   rows, results, combined, tree>>

\* The rest of the loop body: prompt_id, the row, its flattened columns.
BuildRow ==
    /\ pc = "extracted"
    /\ result' = build_row(log_file, log_data.value[1])
    /\ pc' = "row"
    /\ UNCHANGED <<log_file, disk, lines, token_data, log_data, start_time, end_time,
                   duration, log_folders, folder_idx, log_files, file_idx,
                   rows, results, combined, tree>>

Next == Construct \/ ExtractReturns \/ ExtractRaises \/ BuildRow

Spec == Init /\ [][Next]_vars

SpecNames == InitNames /\ [][Next]_vars

\* ------------------------------------------- _calculate_duration on pairs

\* Timestamps matching TIMESTAMP_PATTERN; a seconds field of 75 matches the
\* pattern and is refused by strptime.
DurationTimestamps ==
    {<<day, hour, minute, second>> :
        day \in 1..MaxDay, hour \in {0, 23}, minute \in {0, 59},
        second \in {0, 3, 59, 75}}
    \cup {TS1.v, TS2.v}

InitDuration ==
    /\ pc = "duration_args"
    /\ start_time \in DurationTimestamps
    /\ end_time \in DurationTimestamps
    /\ duration = None
    /\ log_file = DefaultName
    /\ disk = Missing
    /\ lines = <<>>
    /\ token_data = <<>>
    /\ log_data = NoData
    /\ result = NoRow
    /\ IdleTree

CalculateDuration ==
    /\ pc = "duration_args"
    /\ duration' = _calculate_duration(start_time, end_time)
    /\ pc' = "duration_done"
    /\ UNCHANGED <<log_file, disk, lines, token_data, log_data, result,
                   start_time, end_time, log_folders, folder_idx, log_files,
                   file_idx, rows, results, combined, tree>>

NextDuration == CalculateDuration

SpecDuration == InitDuration /\ [][NextDuration]_vars

\* ------------------------------------------------------------ process_logs

\* Code points of the characters of file names.
ord(c) ==
    CASE c = "-" -> 45 [] c = "." -> 46 [] c = "0" -> 48 [] c = "1" -> 49
      [] c = "7" -> 55 [] c = "_" -> 95 [] c = "g" -> 103 [] c = "l" -> 108
      [] c = "o" -> 111 [] c = "p" -> 112 [] c = "s" -> 115 [] c = "x" -> 120

\* a < b on str: the first differing character decides, a proper prefix
\* comes first.
RECURSIVE str_lt(_, _)
str_lt(a, b) ==
    IF b = <<>> THEN FALSE
    ELSE IF a = <<>> THEN TRUE
    ELSE IF Head(a) = Head(b) THEN str_lt(Tail(a), Tail(b))
    ELSE ord(Head(a)) < ord(Head(b))

\* The names in descending order.
RECURSIVE sorted_descending(_)
sorted_descending(names) ==
    IF names = {} THEN <<>>
    ELSE
        LET greatest == CHOOSE a \in names : \A b \in names \ {a} : str_lt(b, a)
        IN  <<greatest>> \o sorted_descending(names \ {greatest})

\* sorted(log_files)
RECURSIVE sorted(_)
sorted(names) ==
    IF names = {} THEN <<>>
    ELSE
        LET least == CHOOSE a \in names : \A b \in names \ {a} : str_lt(a, b)
        IN  <<least>> \o sorted(names \ {least})

\* df_summary["config"] = log_folder: every row gets the column; a table
\* without rows stays without rows.
set_config(df, log_folder) ==
    [i \in 1..Len(df) |-> [config |-> log_folder] @@ df[i]]

\* pd.concat(results, ignore_index=True)
RECURSIVE concat(_)
concat(tables) ==
    IF tables = <<>> THEN <<>> ELSE Head(tables) \o concat(Tail(tables))

\* The files of the trees: a run that deploys, a file of usage lines
\* without any timestamp, a file that cannot be decoded, and a file whose
\* only timestamp is on the teardown line.
NameSuccess == <<"p", "_", "7">> \o Ext
NameNoTimestamp == <<"p", "_", "1", "0">> \o Ext
NameUndecodable == <<"s">> \o Ext
NameTeardown == <<"x", "_">> \o Ext

TreeFileNames == {NameSuccess, NameNoTimestamp, NameUndecodable, NameTeardown}

content_of(filename) ==
    CASE filename = NameSuccess ->
            Readable(<< <<TS1>>, <<AppRunningText, WS>>,
                        <<TS2, Usage(<<"A">>, 100, 50, 150)>> >>)
      [] filename = NameNoTimestamp ->
            Readable(<< <<Usage(<<"A">>, 100, 50, 150)>> >>)
      [] filename = NameUndecodable -> Undecodable
      [] filename = NameTeardown -> Readable(<< <<TS1, StoppingText>> >>)

FolderNames == {"baseline", "tuned", "wide"}

FileSets == {S \in SUBSET TreeFileNames : Cardinality(S) <= MaxFiles}

\* The subfolders in the order os.listdir gives them, each with its .log
\* files.
Listings ==
    {l \in UNION {[1..n -> [name : FolderNames, files : FileSets]] : n \in 0..MaxFolders} :
        \A i, j \in 1..Len(l) : l[i].name = l[j].name => i = j}

Trees ==
    {[exists |-> TRUE, folders |-> l] : l \in Listings}
    \cup {[exists |-> FALSE, folders |-> <<>>]}

InitTree ==
    /\ pc = "process_logs"
    /\ tree \in Trees
    /\ log_folders = <<>>
    /\ folder_idx = 0
    /\ log_files = <<>>
    /\ file_idx = 0
    /\ rows = <<>>
    /\ results = <<>>
    /\ combined = <<>>
    /\ log_file = DefaultName
    /\ disk = Missing
    /\ lines = <<>>
    /\ token_data = <<>>
    /\ log_data = NoData
    /\ result = NoRow
    /\ IdleDuration

\* process_logs: source_loc does not exist, an empty table is returned.
RootMissing ==
    /\ pc = "process_logs"
    /\ ~tree.exists
    /\ combined' = <<>>
    /\ pc' = "done"
    /\ UNCHANGED <<log_file, disk, lines, token_data, log_data, result,
                   start_time, end_time, duration, log_folders, folder_idx,
                   log_files, file_idx, rows, results, tree>>

\* process_logs: the subfolders are listed.
ListFolders ==
    /\ pc = "process_logs"
    /\ tree.exists
    /\ log_folders' = [i \in 1..Len(tree.folders) |-> tree.folders[i].name]
    /\ folder_idx' = 0
    /\ results' = <<>>
    /\ pc' = "next_folder"
    /\ UNCHANGED <<log_file, disk, lines, token_data, log_data, result,
                   start_time, end_time, duration, log_files, file_idx, rows,
                   combined, tree>>

\* process_folder_logs on a subfolder without .log files: an empty table
\* is returned, tagged and appended.
FolderWithoutLogs ==
    /\ pc = "next_folder"
    /\ folder_idx < Len(log_folders)
    /\ tree.folders[folder_idx + 1].files = {}
    /\ results' = Append(results, set_config(<<>>, log_folders[folder_idx + 1]))
    /\ folder_idx' = folder_idx + 1
    /\ UNCHANGED <<pc, log_file, disk, lines, token_data, log_data, result,
                   start_time, end_time, duration, log_folders, log_files,
                   file_idx, rows, combined, tree>>

\* process_folder_logs on a subfolder with .log files: they are sorted.
EnterFolder ==
    /\ pc = "next_folder"
    /\ folder_idx < Len(log_folders)
    /\ tree.folders[folder_idx + 1].files # {}
    /\ log_files' = sorted(tree.folders[folder_idx + 1].files)
    /\ file_idx' = 0
    /\ rows' = <<>>
    /\ pc' = "next_file"
    /\ UNCHANGED <<log_file, disk, lines, token_data, log_data, result,
                   start_time, end_time, duration, log_folders, folder_idx,
                   results, combined, tree>>

\* One iteration of the loop over sorted(log_files) that appends a row.
ProcessFile ==
    /\ pc = "next_file"
    /\ file_idx < Len(log_files)
    /\ LET filename == log_files[file_idx + 1]
           data == extract_log_data(_read_file(content_of(filename)))
       IN  /\ data.status = "returned"
           /\ log_file' = filename
           /\ disk' = content_of(filename)
           /\ lines' = _read_file(content_of(filename))
           /\ token_data' = extract_provider_token_data(_read_file(content_of(filename)))
           /\ log_data' = data
           /\ result' = build_row(filename, data.value[1])
           /\ rows' = Append(rows, build_row(filename, data.value[1]))
    /\ file_idx' = file_idx + 1
    /\ UNCHANGED <<pc, start_time, end_time, duration, log_folders,
                   folder_idx, log_files, results, combined, tree>>

\* One iteration in which extract_log_data raises: the IndexError leaves
\* process_folder_logs and process_logs.
ProcessFileRaises ==
    /\ pc = "next_file"
    /\ file_idx < Len(log_files)
    /\ LET filename == log_files[file_idx + 1]
           data == extract_log_data(_read_file(content_of(filename)))
       IN  /\ data.status = "raised"
           /\ log_file' = filename
           /\ disk' = content_of(filename)
           /\ lines' = _read_file(content_of(filename))
           /\ token_data' = extract_provider_token_data(_read_file(content_of(filename)))
           /\ log_data' = data
    /\ pc' = "raised"
    /\ UNCHANGED <<result, start_time, end_time, duration, log_folders,
                   folder_idx, log_files, file_idx, rows, results, combined,
                   tree>>

\* process_folder_logs returns its table; process_logs tags and appends it.
FolderReturns ==
    /\ pc = "next_file"
    /\ file_idx = Len(log_files)
    /\ results' = Append(results, set_config(rows, log_folders[folder_idx + 1]))
    /\ folder_idx' = folder_idx + 1
    /\ pc' = "next_folder"
    /\ UNCHANGED <<log_file, disk, lines, token_data, log_data, result,
                   start_time, end_time, duration, log_folders, log_files,
                   file_idx, rows, combined, tree>>

\* process_logs returns the concatenation, or an empty table when there
\* was no subfolder.
Concat ==
    /\ pc = "next_folder"
    /\ folder_idx = Len(log_folders)
    /\ combined' = IF results # <<>> THEN concat(results) ELSE <<>>
    /\ pc' = "done"
    /\ UNCHANGED <<log_file, disk, lines, token_data, log_data, result,
                   start_time, end_time, duration, log_folders, folder_idx,
                   log_files, file_idx, rows, results, tree>>

NextTree ==
    \/ RootMissing \/ ListFolders \/ FolderWithoutLogs \/ EnterFolder
    \/ ProcessFile \/ ProcessFileRaises \/ FolderReturns \/ Concat

SpecTree == InitTree /\ [][NextTree]_vars

\* ---------------------------------------------------- vocabulary of claims

Min(S) == CHOOSE x \in S : \A y \in S : x <= y
Max(S) == CHOOSE x \in S : \A y \in S : y <= x

RECURSIVE SumOver(_, _)
SumOver(S, f) ==
    IF S = {} THEN 0
    ELSE LET x == CHOOSE y \in S : TRUE IN f[x] + SumOver(S \ {x}, f)

\* The lines of the file; an unreadable or missing file has none.
FileLines == IF disk.status = "ok" THEN disk.content ELSE <<>>

\* A line without its leading and trailing whitespace.
Trimmed(line) ==
    LET keep == {j \in 1..Len(line) : line[j] # WS}
    IN  IF keep = {} THEN <<>> ELSE SubSeq(line, Min(keep), Max(keep))

LineStartsWith(i, text) ==
    Trimmed(FileLines[i]) # <<>> /\ Trimmed(FileLines[i])[1] = text

LineEndsWith(i, text) ==
    Trimmed(FileLines[i]) # <<>>
    /\ Trimmed(FileLines[i])[Len(Trimmed(FileLines[i]))] = text

LineNumbers == 1..Len(FileLines)

SomeLineDeployed == \E i \in LineNumbers : LineStartsWith(i, AppRunningText)
SomeLineAsserts == \E i \in LineNumbers : LineStartsWith(i, AssertionErrorText)
SomeLineEmoji == \E i \in LineNumbers : LineEndsWith(i, EmojiText)

TimestampsOf(i) == {j \in 1..Len(FileLines[i]) : FileLines[i][j].kind = "ts"}

\* The lines holding at least one timestamp.
TimestampBearing == {i \in LineNumbers : TimestampsOf(i) # {}}

\* The first timestamp of a timestamp-bearing line.
FirstMatch(i) == FileLines[i][Min(TimestampsOf(i))].v

IsTeardown(i) == \E j \in 1..Len(FileLines[i]) : FileLines[i][j] = StoppingText

\* The file's only timestamp-bearing line is a teardown line.
SoleTeardown ==
    Cardinality(TimestampBearing) = 1 /\ IsTeardown(Max(TimestampBearing))

Extracted == pc \in {"extracted", "raised", "row"}

Record == log_data.value[1]

ExpectedStatus ==
    IF SomeLineDeployed /\ ~(SomeLineAsserts /\ SomeLineEmoji)
    THEN "success" ELSE "fail"

\* -------------------------------------------------------------------- C1

AllTemporalNone ==
    /\ log_data.status = "returned"
    /\ Record.start_time = None
    /\ Record.end_time = None
    /\ Record.duration = None

C4_StartAndEnd ==
    (Extracted /\ TimestampBearing # {}) =>
        /\ log_data.status = "returned"
        /\ Record.start_time = Some(FirstMatch(Min(TimestampBearing)))
        /\ LET last == Max(TimestampBearing)
               before == TimestampBearing \ {last}
           IN  IF ~IsTeardown(last) THEN Record.end_time = Some(FirstMatch(last))
               ELSE before # {} => Record.end_time = Some(FirstMatch(Max(before)))

\* -------------------------------------------------------------------- C5

\* The usage annotation a line is matched with: its leftmost one.
UsagesOf(i) == {j \in 1..Len(FileLines[i]) : FileLines[i][j].kind = "usage"}
Matching == {i \in LineNumbers : UsagesOf(i) # {}}
MatchOf(i) == FileLines[i][Min(UsagesOf(i))].v

\* A provider name without its surrounding spaces, letter case kept.
TrimmedName(name) ==
    LET keep == {j \in 1..Len(name) : name[j] # " "}
    IN  IF keep = {} THEN <<>> ELSE SubSeq(name, Min(keep), Max(keep))

ProviderOf(i) == TrimmedName(MatchOf(i)[1])
LinesOf(provider) == {i \in Matching : ProviderOf(i) = provider}

BucketsOf(provider) ==
    {k \in 1..Len(token_data) : token_data[k].key = provider}

\* C5: after the scan there is exactly one bucket per exact trimmed provider
\* name of a matching line; its api_calls is the number of matching lines of
\* that provider and its three token counts are the sums of the parsed
\* fields of those lines, total_tokens being the sum of the parsed totals.
C5_BucketsAreSums ==
    Extracted =>
        /\ \A k \in 1..Len(token_data) : LinesOf(token_data[k].key) # {}
        /\ \A i \in Matching :
               /\ Cardinality(BucketsOf(ProviderOf(i))) = 1
               /\ LET bucket == token_data[Min(BucketsOf(ProviderOf(i)))]
                      of == LinesOf(ProviderOf(i))
                  IN  /\ bucket.api_calls = Cardinality(of)
                      /\ bucket.input_tokens =
                             SumOver(of, [l \in of |-> MatchOf(l)[2]])
                      /\ bucket.output_tokens =
                             SumOver(of, [l \in of |-> MatchOf(l)[3]])
                      /\ bucket.total_tokens =
                             SumOver(of, [l \in of |-> MatchOf(l)[4]])

\* Two lines of one provider were accumulated, their total differing from
\* input plus output, next to a line that does not match.
C5_Witness ==
    /\ Extracted
    /\ \E k \in 1..Len(token_data) :
           /\ token_data[k].api_calls = 2
           /\ token_data[k].total_tokens #
                  token_data[k].input_tokens + token_data[k].output_tokens
    /\ Matching # LineNumbers

\* -------------------------------------------------------------------- C6

\* C6: the row's total_api_calls is the number of lines of the file that
\* match the token-usage pattern, whether or not the file has a timestamp.
C6_TotalApiCalls ==
    pc = "row" => result.total_api_calls = Cardinality(Matching)

\* ------------------------------------------------------------------- C10

ColumnsOf(metric) ==
    {c \in DOMAIN result.columns : c[Len(c)] = metric}

Keys == {token_data[k].key : k \in 1..Len(token_data)}

BucketOf(key) == token_data[Min(BucketsOf(key))]

\* C10: every distinct provider key has its own four columns holding that
\* provider's accumulated values, and the '<provider>_api_calls' columns of
\* the row add up to its total_api_calls, also for keys that differ only in
\* letter case or in a space against an underscore.
C10_FlatteningLosesNoProvider ==
    (pc = "row" /\ Record.token_data # None) =>
        /\ \A metric \in {"input_tokens", "output_tokens", "total_tokens", "api_calls"} :
               /\ Cardinality(ColumnsOf(metric)) = Cardinality(Keys)
               /\ SumOver(ColumnsOf(metric), result.columns) =
                      SumOver(Keys, [key \in Keys |->
                          CASE metric = "input_tokens" -> BucketOf(key).input_tokens
                            [] metric = "output_tokens" -> BucketOf(key).output_tokens
                            [] metric = "total_tokens" -> BucketOf(key).total_tokens
                            [] metric = "api_calls" -> BucketOf(key).api_calls])
        /\ SumOver(ColumnsOf("api_calls"), result.columns) = result.total_api_calls

\* -------------------------------------------------------------------- C8

\* The base name without its extension.
Stem == SubSeq(log_file, 1, Len(log_file) - Len(Ext))

Underscores == {i \in 1..Len(Stem) : Stem[i] = "_"}

\* The second '_'-separated token of the stem, when there is one.
SecondToken ==
    IF Underscores = {} THEN None
    ELSE
        LET from == Min(Underscores)
            later == {i \in Underscores : i > from}
            to == IF later = {} THEN Len(Stem) + 1 ELSE Min(later)
        IN  Some(SubSeq(Stem, from + 1, to - 1))

DecimalDigits == {"0", "1", "2", "3", "4", "5", "6", "7", "8", "9"}

Unsigned(token) ==
    IF token # <<>> /\ token[1] \in {"+", "-"} THEN Tail(token) ELSE token

\* An optional sign followed by one or more decimal digits.
IsInteger(token) ==
    /\ Unsigned(token) # <<>>
    /\ \A i \in 1..Len(Unsigned(token)) : Unsigned(token)[i] \in DecimalDigits

RECURSIVE Pow10(_)
Pow10(n) == IF n = 0 THEN 1 ELSE 10 * Pow10(n - 1)

DigitOf(c) == CHOOSE d \in 0..9 : Digits[d + 1] = c

IntegerValue(token) ==
    LET u == Unsigned(token)
        magnitude ==
            SumOver(1..Len(u), [i \in 1..Len(u) |-> DigitOf(u[i]) * Pow10(Len(u) - i)])
    IN  IF token[1] = "-" THEN 0 - magnitude ELSE magnitude

\* The row holds the prompt id of the file's name, the name, and every
\* field of the record extracted from the file.
RowOfFile ==
    /\ result.prompt_id =
           IF SecondToken # None /\ IsInteger(SecondToken[1])
           THEN Some(IntegerValue(SecondToken[1]))
           ELSE None
    /\ result.log_file = log_file
    /\ result.start_time = Record.start_time
    /\ result.end_time = Record.end_time
    /\ result.gen_time = Record.duration
    /\ result.build_status = Record.build_status
    /\ result.post_build_error = Record.post_build_error

\* C8: for every file name, the step after the extraction builds the row,
\* whose prompt_id is the integer value of the second '_'-separated token
\* of the base name without extension, and null when that token is missing
\* or is not an integer; the row holds all its other fields all the same.
C8_PromptId == [][pc = "extracted" => (pc' = "row" /\ RowOfFile')]_vars

\* A file whose name has a second token that is no integer was made a row
\* with its timestamps.
C8_Witness ==
    /\ pc = "row"
    /\ SecondToken # None
    /\ SecondToken[1] # <<>>
    /\ result.prompt_id = None
    /\ result.start_time # None

\* -------------------------------------------------------------------- C7

WellFormed(ts) ==
    ts[1] \in 1..31 /\ ts[2] \in 0..23 /\ ts[3] \in 0..59 /\ ts[4] \in 0..59

SecondsIntoMonth(ts) == ts[4] + 60 * ts[3] + 3600 * ts[2] + 86400 * (ts[1] - 1)

\* The parts of a rendered duration '<m>min <ss>sec'.
MinAt(d) == {i \in 1..Len(d) : d[i] = "min"}
MinutesText(d) == SubSeq(d, 1, Min(MinAt(d)) - 1)
SecondsText(d) == SubSeq(d, Min(MinAt(d)) + 2, Len(d) - 1)

IsRendered(d) ==
    /\ Cardinality(MinAt(d)) = 1
    /\ IsInteger(MinutesText(d))
    /\ d[Min(MinAt(d)) + 1] = " "
    /\ d[Len(d)] = "sec"
    /\ Len(SecondsText(d)) = 2
    /\ \A i \in 1..2 : SecondsText(d)[i] \in DecimalDigits
    /\ IntegerValue(SecondsText(d)) \in 0..59

\* C7: for every well-formed pair, end earlier than start included, the
\* result reads '<m>min <ss>sec' with ss two digits in 0..59 and
\* start + (m*60 + ss) seconds is end.
C7_DurationRoundTrip ==
    (pc = "duration_done" /\ WellFormed(start_time) /\ WellFormed(end_time)) =>
        /\ duration # None
        /\ IsRendered(duration[1])
        /\ SecondsIntoMonth(start_time)
               + IntegerValue(MinutesText(duration[1])) * 60
               + IntegerValue(SecondsText(duration[1]))
           = SecondsIntoMonth(end_time)

\* A duration was rendered for an end earlier than its start by a number
\* of seconds that is no multiple of 60.
C7_Witness ==
    /\ pc = "duration_done"
    /\ WellFormed(start_time) /\ WellFormed(end_time)
    /\ SecondsIntoMonth(end_time) < SecondsIntoMonth(start_time)
    /\ (SecondsIntoMonth(start_time) - SecondsIntoMonth(end_time)) % 60 # 0
    /\ duration # None

\* -------------------------------------------------------------------- C3

\* C3: whatever lines a file holds, extract_log_data returns a record
\* without raising, and the folder's loop goes on to give every .log file
\* of the folder its row.
C3_NoFileStopsFolder ==
    /\ log_data.status = "returned"
    /\ pc # "raised"
    /\ pc = "next_file" => Len(rows) = file_idx

\* -------------------------------------------------------------------- C9

\* Name order of two file names.
Precedes(a, b) ==
    \E k \in 1..(Len(b)) :
        /\ \A h \in 1..(k - 1) : h <= Len(a) /\ a[h] = b[h]
        /\ \/ Len(a) = k - 1
           \/ Len(a) >= k /\ ord(a[k]) < ord(b[k])

\* The place of a row's subfolder in the listing.
FolderOf(row) ==
    CHOOSE i \in 1..Len(tree.folders) : tree.folders[i].name = row.config

\* Number of rows of the tables before table i.
Offset(i) == SumOver(1..(i - 1), [h \in 1..(i - 1) |-> Len(results[h])])

\* C9: the returned table is the per-subfolder tables one after the other
\* in listing order, each in name order of its files; every row's config is
\* the subfolder its file is in; a subfolder without .log files gives no
\* row and leaves the rows of the others as they were.
C9_Concatenation ==
    (pc = "done" /\ tree.exists) =>
        /\ Len(results) = Len(tree.folders)
        /\ Len(combined) =
               SumOver(1..Len(tree.folders),
                       [i \in 1..Len(tree.folders) |->
                           Cardinality(tree.folders[i].files)])
        /\ \A i \in 1..Len(results) :
               /\ Len(results[i]) = Cardinality(tree.folders[i].files)
               /\ \A j \in 1..Len(results[i]) :
                      combined[Offset(i) + j] = results[i][j]
        /\ \A k \in 1..Len(combined) :
               /\ \E i \in 1..Len(tree.folders) :
                      tree.folders[i].name = combined[k].config
               /\ combined[k].log_file \in tree.folders[FolderOf(combined[k])].files
        /\ \A k, l \in 1..Len(combined) :
               k < l =>
                   \/ FolderOf(combined[k]) < FolderOf(combined[l])
                   \/ /\ FolderOf(combined[k]) = FolderOf(combined[l])
                      /\ Precedes(combined[k].log_file, combined[l].log_file)

\* A root whose first subfolder has no .log file and whose second has two
\* was aggregated.
C9_Witness ==
    /\ pc = "done"
    /\ Len(tree.folders) = 2
    /\ tree.folders[1].files = {}
    /\ Len(combined) = 2

====
